---- MODULE Spec2Model ----
(***************************************************************************)
(* A model of githubcity/GitHubCity.py: the crawl of getCityUsers (one     *)
(* producer paging the search endpoint, worker threads running             *)
(* _processUsers/_addUser), the interval bisection of                      *)
(* calculateBestIntervals/_validInterval, and the retry loop of _readAPI.  *)
(***************************************************************************)
EXTENDS Integers, Sequences, FiniteSets, TLC

\* ------------------------------------------------------------------ bounds

\* Number of worker threads of a crawl (the program launches 20).
NumThreads == 2
\* Most logins the search endpoint hands out during one crawl.
MaxPush == 2

\* Latest day datetime.now().date() can be, in days after 2008-01-01.
MaxDay == 4
\* Depth of recursion at which the interpreter raises RecursionError.
RecursionLimit == 4
\* Latest reading of the clock, in seconds, and most requests of one _readAPI.
MaxTime == 4
MaxRequests == 3

\* ---------------------------------------------------------------- constants

\* if data["total_count"]>=1000:
CAP == 1000

Workers == 1..NumThreads
NoThread == 0

\* Logins the search endpoint can return.
Logins == {"a", "b"}
NoUser == "-"

\* Locations a profile can carry: strings, as sequences of characters.
Locations == {<<"x">>, <<"x", "y">>}
NoLoc == <<"-">>

\* Exclusion sets a crawler can be constructed with.
ExcludedChoices == {{}, {"b"}}
ExcludedLocationChoices == {{<<"y">>}}

\* Partition sets a crawl can start from (pairs of YYYY-MM-DD strings).
IntervalChoices ==
    { <<>>,
      << <<"2008-01-01", "2008-01-02">> >>,
      << <<"2008-01-01", "2008-01-02">>, <<"2008-01-02", "2008-01-03">> >> }

\* URLs _readAPI can be called with.
Urls == {"search?page=1", "search?page=2"}

\* What urlopen can come back with: a response (code 200 with a body that
\* parses or does not, or another 2xx code), an HTTPError carrying the header
\* X-RateLimit-Reset, an HTTPError without it, or a URLError that is no HTTP
\* response (no code, no headers).
NoResponse == [kind |-> "none", code |-> 0, reset |-> 0, json |-> FALSE]
ServerResponses ==
    {[kind |-> "response", code |-> 200, reset |-> 0, json |-> j] : j \in BOOLEAN}
    \cup {[kind |-> "response", code |-> 202, reset |-> 0, json |-> TRUE]}
    \cup {[kind |-> "ratelimit", code |-> 403, reset |-> r, json |-> FALSE] :
             r \in 0..MaxTime}
    \cup {[kind |-> "httperror", code |-> 404, reset |-> 0, json |-> FALSE]}
    \cup {[kind |-> "urlerror", code |-> 0, reset |-> 0, json |-> FALSE]}

\* total_count values of a probe: just under and at the ceiling.
Counts == {CAP - 1, CAP}

\* total_count values of a search response.
TotalCounts == {99, 100}

\* The city argument of the constructor (None or a name), and its
\* locations argument (None or a list of names).
NoCity == "None"
Cities == {NoCity, "c"}
LocationArgs == {<<>>, <<"x">>}

\* Exclusion sets of the crawler whose configuration is saved.
SavedExcluded == SUBSET Logins
SavedExcludedLocations == SUBSET {<<"x">>, <<"y">>}

\* A dictionary not yet built, and an object with no attribute set.
NoConfig ==
    [name |-> NoCity, intervals |-> <<>>, last_date |-> "",
     excludedUsers |-> <<>>, excludedLocations |-> <<>>, locations |-> <<>>]
NoObject ==
    [city |-> NoCity, intervals |-> <<>>, lastDay |-> "", excluded |-> {},
     excludedLocations |-> {}, locations |-> <<>>]

VARIABLES
    \* GitHubCity attributes
    names, myusers, dataUsers, excluded, excludedLocations, fin, threads,
    lockGetUser, lockReadAddUser, intervals,
    \* worker threads: position, and the locals new_user and userLoc
    pc, new_user, userLoc,
    \* getCityUsers / _launchThreads / _getPeriodUsers: position and locals
    mpc, launched, ival, page, total_pages, data, joined,
    \* the pages the running _getPeriodUsers has requested, in order
    reads,
    \* history: logins put on the queue, locations fetched per login
    pushed, fetched,
    \* calculateBestIntervals / _validInterval: position, the call stack,
    \* the day it runs, _lastDay, and the probes made so far
    ppc, stack, today, lastDay, probes,
    \* _readAPI: position, the argument url, the local code, the clock,
    \* the response at hand, the URLs requested and the sleeps made
    rpc, url, code, now, response, requests, slept,
    \* resuming from a configuration: position, the source crawler's _city
    \* and _locations, the dictionary its getConfig returned, the new
    \* crawler's attributes and which of them exist, and the dictionary the
    \* new crawler's getConfig returned
    cpc, city, locations, config, resumed, attrs, config2

crawlVars == <<names, myusers, dataUsers, excluded, excludedLocations, fin,
               threads, lockGetUser, lockReadAddUser, intervals,
               pc, new_user, userLoc,
               mpc, launched, ival, page, total_pages, data, joined, reads,
               pushed, fetched>>

crawlVarsButIntervals ==
    <<names, myusers, dataUsers, excluded, excludedLocations, fin, threads,
      lockGetUser, lockReadAddUser, pc, new_user, userLoc, mpc, launched,
      ival, page, total_pages, data, joined, reads, pushed, fetched>>

partVars == <<ppc, stack, today, lastDay, probes>>

apiVars == <<rpc, url, code, now, response, requests, slept>>

resumeVars == <<cpc, city, locations, config, resumed, attrs, config2>>

vars == <<crawlVars, partVars, apiVars, resumeVars>>

\* ------------------------------------------------------------------ helpers

\* Python's `s in t` on strings: s is a substring of t.
Contains(s, t) ==
    \E i \in 0..(Len(t) - Len(s)) : SubSeq(t, i + 1, i + Len(s)) = s

\* any(s in userLoc for s in self._excludedLocations)
AnyExcludedLocation(loc) == \E s \in excludedLocations : Contains(s, loc)

\* All sequences over S of length at most n.
SeqsUpTo(S, n) == UNION { [1..k -> S] : k \in 0..n }

\* int(total_count / 100) + 1
TotalPages(total_count) == (total_count \div 100) + 1

\* No response at hand.
NoData == [items |-> <<>>, total_count |-> 0]

\* calendar: the days of month m of year y
IsLeap(y) == (y % 4 = 0 /\ y % 100 # 0) \/ y % 400 = 0

DaysInMonth(y, m) ==
    IF m = 2 THEN (IF IsLeap(y) THEN 29 ELSE 28)
    ELSE IF m \in {4, 6, 9, 11} THEN 30 ELSE 31

\* The date d days after the first of month m of year y, as <<y, m, d>>.
RECURSIVE DateFrom(_, _, _)
DateFrom(y, m, d) ==
    IF d < DaysInMonth(y, m) THEN <<y, m, d + 1>>
    ELSE IF m = 12 THEN DateFrom(y + 1, 1, d - DaysInMonth(y, m))
    ELSE DateFrom(y, m + 1, d - DaysInMonth(y, m))

\* %m and %d: two digits
TwoDigits(n) == IF n < 10 THEN "0" \o ToString(n) ELSE ToString(n)

\* strftime("%Y-%m-%d") of the date n days after datetime.date(2008, 1, 1)
Strftime(n) ==
    LET ymd == DateFrom(2008, 1, n)
    IN  ToString(ymd[1]) \o "-" \o TwoDigits(ymd[2]) \o "-" \o TwoDigits(ymd[3])

\* middle = start + (finish - start)/2 : date + timedelta drops the half day
Middle(start, finish) == start + ((finish - start) \div 2)

\* The comparison with > for >=.
IsBigStrict(total_count) == total_count > CAP

\* if data["total_count"]>=1000:
IsBig(total_count) == total_count >= CAP

\* ------------------------------------------------------------------ Init

InitCrawl ==
    /\ names = <<>>
    /\ myusers = {}
    /\ dataUsers = <<>>
    /\ excluded \in ExcludedChoices
    /\ excludedLocations \in ExcludedLocationChoices
    /\ fin = FALSE
    /\ threads = {}
    /\ lockGetUser = NoThread
    /\ lockReadAddUser = NoThread
    /\ intervals \in IntervalChoices
    /\ pc = [w \in Workers |-> "idle"]
    /\ new_user = [w \in Workers |-> NoUser]
    /\ userLoc = [w \in Workers |-> NoLoc]
    /\ mpc = "start"
    /\ launched = 0
    /\ ival = 0
    /\ page = 0
    /\ total_pages = 0
    /\ data = NoData
    /\ joined = {}
    /\ reads = <<>>
    /\ pushed = <<>>
    /\ fetched = [u \in Logins |-> <<>>]

\* The crawler at rest: no crawl under way.
RestCrawl ==
    /\ names = <<>>
    /\ myusers = {}
    /\ dataUsers = <<>>
    /\ excluded = {}
    /\ excludedLocations = {}
    /\ fin = FALSE
    /\ threads = {}
    /\ lockGetUser = NoThread
    /\ lockReadAddUser = NoThread
    /\ pc = [w \in Workers |-> "idle"]
    /\ new_user = [w \in Workers |-> NoUser]
    /\ userLoc = [w \in Workers |-> NoLoc]
    /\ mpc = "start"
    /\ launched = 0
    /\ ival = 0
    /\ page = 0
    /\ total_pages = 0
    /\ data = NoData
    /\ joined = {}
    /\ reads = <<>>
    /\ pushed = <<>>
    /\ fetched = [u \in Logins |-> <<>>]

\* No partitioning under way.
RestPartition ==
    /\ ppc = "idle"
    /\ stack = <<>>
    /\ today = 0
    /\ lastDay = ""
    /\ probes = <<>>

\* No _readAPI call under way.
RestAPI ==
    /\ rpc = "idle"
    /\ url = ""
    /\ code = 0
    /\ now = 0
    /\ response = NoResponse
    /\ requests = <<>>
    /\ slept = <<>>

\* No resume under way.
RestResume ==
    /\ cpc = "idle"
    /\ city = NoCity
    /\ locations = <<>>
    /\ config = NoConfig
    /\ resumed = NoObject
    /\ attrs = {}
    /\ config2 = NoConfig

\* _readAPI(url) entered at some time: code = 0
InitAPI ==
    /\ RestCrawl
    /\ RestResume
    /\ intervals = <<>>
    /\ RestPartition
    /\ rpc = "while"
    /\ url \in Urls
    /\ code = 0
    /\ now \in 0..MaxTime
    /\ response = NoResponse
    /\ requests = <<>>
    /\ slept = <<>>

\* A crawler about to compute its intervals on some day; _intervals may
\* hold the intervals of an earlier computation or of a configuration.
InitPartition ==
    /\ RestCrawl
    /\ RestResume
    /\ intervals \in IntervalChoices
    /\ ppc = "idle"
    /\ stack = <<>>
    /\ today \in 0..MaxDay
    /\ lastDay = ""
    /\ probes = <<>>
    /\ RestAPI

Init == InitCrawl /\ RestPartition /\ RestAPI /\ RestResume

workerLocals == <<pc, new_user, userLoc>>
mainVars == <<mpc, launched, ival, page, total_pages, data, joined, reads,
              pushed>>
workerVars == <<myusers, dataUsers, lockGetUser, lockReadAddUser, new_user,
                userLoc, fetched>>
configVars == <<excluded, excludedLocations, intervals>>

\* ------------------------------------------------- _processUsers / _addUser

\* while(self._names.empty()): pass
Spin(w) ==
    /\ pc[w] = "spin"
    /\ pc' = [pc EXCEPT ![w] = IF names = <<>> THEN "spin" ELSE "loop"]
    /\ UNCHANGED <<names, myusers, dataUsers, fin, threads, lockGetUser,
                   lockReadAddUser, new_user, userLoc, mainVars, configVars,
                   partVars, apiVars, resumeVars,
                   fetched>>

\* while not self._fin or not self._names.empty():
Loop(w) ==
    /\ pc[w] = "loop"
    /\ pc' = [pc EXCEPT ![w] =
                IF ~fin \/ names # <<>> THEN "acquireGet" ELSE "done"]
    /\ UNCHANGED <<names, myusers, dataUsers, fin, threads, lockGetUser,
                   lockReadAddUser, new_user, userLoc, mainVars, configVars,
                   partVars, apiVars, resumeVars,
                   fetched>>

\* self._lockGetUser.acquire()
AcquireGet(w) ==
    /\ pc[w] = "acquireGet"
    /\ lockGetUser = NoThread
    /\ lockGetUser' = w
    /\ pc' = [pc EXCEPT ![w] = "get"]
    /\ UNCHANGED <<names, myusers, dataUsers, fin, threads,
                   lockReadAddUser, new_user, userLoc, mainVars, configVars,
                   partVars, apiVars, resumeVars,
                   fetched>>

\* try: new_user = self._names.get(False)
\* except queue.Empty: self._lockGetUser.release(); return
\* else: self._lockGetUser.release(); self._addUser(new_user)
Get(w) ==
    /\ pc[w] = "get"
    /\ IF names = <<>>
       THEN /\ pc' = [pc EXCEPT ![w] = "done"]
            /\ UNCHANGED <<names, new_user>>
       ELSE /\ new_user' = [new_user EXCEPT ![w] = Head(names)]
            /\ names' = Tail(names)
            /\ pc' = [pc EXCEPT ![w] = "acquireAdd"]
    /\ lockGetUser' = NoThread
    /\ UNCHANGED <<myusers, dataUsers, fin, threads, lockReadAddUser,
                   userLoc, mainVars, configVars, partVars, apiVars,
                   resumeVars, fetched>>

\* self._lockReadAddUser.acquire()
AcquireAdd(w) ==
    /\ pc[w] = "acquireAdd"
    /\ lockReadAddUser = NoThread
    /\ lockReadAddUser' = w
    /\ pc' = [pc EXCEPT ![w] = "test"]
    /\ UNCHANGED <<names, myusers, dataUsers, fin, threads, lockGetUser,
                   new_user, userLoc, mainVars, configVars, partVars,
                   apiVars, resumeVars, fetched>>

\* The test without its second conjunct.
PassesTestSeenOnly(u) == u \notin myusers

\* not new_user in self._myusers and not new_user in self._excluded
PassesTest(u) == u \notin myusers /\ u \notin excluded

\* The test that, when it passes, goes on without releasing the lock.
TestKeepingLock(w) ==
    /\ pc[w] = "test"
    /\ IF PassesTest(new_user[w])
       THEN /\ pc' = [pc EXCEPT ![w] = "add"]
            /\ UNCHANGED <<new_user, lockReadAddUser>>
       ELSE /\ pc' = [pc EXCEPT ![w] = "loop"]
            /\ new_user' = [new_user EXCEPT ![w] = NoUser]
            /\ lockReadAddUser' = NoThread
    /\ UNCHANGED <<names, myusers, dataUsers, fin, threads, lockGetUser,
                   userLoc, mainVars, configVars, partVars, apiVars,
                   resumeVars, fetched>>

\* if not new_user in self._myusers and not new_user in self._excluded:
\*     self._lockReadAddUser.release() ...
\* else:
\*     self._lockReadAddUser.release()
Test(w) ==
    /\ pc[w] = "test"
    /\ lockReadAddUser' = NoThread
    /\ IF PassesTest(new_user[w])
       THEN /\ pc' = [pc EXCEPT ![w] = "add"]
            /\ UNCHANGED new_user
       ELSE /\ pc' = [pc EXCEPT ![w] = "loop"]
            /\ new_user' = [new_user EXCEPT ![w] = NoUser]
    /\ UNCHANGED <<names, myusers, dataUsers, fin, threads, lockGetUser,
                   userLoc, mainVars, configVars, partVars, apiVars,
                   resumeVars, fetched>>

\* self._myusers.add(new_user)
Add(w) ==
    /\ pc[w] = "add"
    /\ myusers' = myusers \cup {new_user[w]}
    /\ pc' = [pc EXCEPT ![w] = "getData"]
    /\ UNCHANGED <<names, dataUsers, fin, threads, lockGetUser,
                   lockReadAddUser, new_user, userLoc, mainVars, configVars,
                   partVars, apiVars, resumeVars,
                   fetched>>

\* myNewUser = GitHubUser(new_user); myNewUser.getData();
\* userLoc = myNewUser.getLocation()
GetData(w) ==
    /\ pc[w] = "getData"
    /\ \E loc \in Locations :
         /\ userLoc' = [userLoc EXCEPT ![w] = loc]
         /\ fetched' = [fetched EXCEPT ![new_user[w]] = Append(@, loc)]
    /\ pc' = [pc EXCEPT ![w] = "append"]
    /\ UNCHANGED <<names, myusers, dataUsers, fin, threads, lockGetUser,
                   lockReadAddUser, new_user, mainVars, configVars, partVars,
                   apiVars, resumeVars>>

\* The filter comparing whole locations instead of looking for substrings.
KeepsLocationWhole(loc) == loc \notin excludedLocations

\* if not any(s in userLoc for s in self._excludedLocations)
KeepsLocation(loc) == ~AnyExcludedLocation(loc)

\* if not any(...): self._dataUsers.append(myNewUser)
AppendUser(w) ==
    /\ pc[w] = "append"
    /\ dataUsers' =
         IF KeepsLocation(userLoc[w])
         THEN Append(dataUsers, [login |-> new_user[w], location |-> userLoc[w]])
         ELSE dataUsers
    /\ pc' = [pc EXCEPT ![w] = "loop"]
    /\ new_user' = [new_user EXCEPT ![w] = NoUser]
    /\ userLoc' = [userLoc EXCEPT ![w] = NoLoc]
    /\ UNCHANGED <<names, myusers, fin, threads, lockGetUser,
                   lockReadAddUser, mainVars, configVars, partVars, apiVars,
                   resumeVars, fetched>>

Worker(w) ==
    \/ Spin(w) \/ Loop(w) \/ AcquireGet(w) \/ Get(w) \/ AcquireAdd(w)
    \/ Test(w) \/ Add(w) \/ GetData(w) \/ AppendUser(w)

\* ---------------------------------- getCityUsers / _launchThreads / pager

\* self._fin = False; self._threads = set()
Start ==
    /\ mpc = "start"
    /\ fin' = FALSE
    /\ threads' = {}
    /\ mpc' = "comprobation"
    /\ UNCHANGED <<names, pc, launched, ival, page, total_pages, data, joined,
                   pushed, reads, workerVars, configVars, partVars, apiVars,
                   resumeVars>>

\* comprobationData = self._readAPI(comprobationURL)
Comprobation ==
    /\ mpc = "comprobation"
    /\ mpc' = "launch"
    /\ UNCHANGED <<names, fin, threads, pc, launched, ival, page, total_pages,
                   data, joined, pushed, reads, workerVars, configVars,
                   partVars, apiVars, resumeVars>>

\* one turn of the loop of _launchThreads: add the thread and start it
LaunchThread ==
    /\ mpc = "launch"
    /\ launched < NumThreads
    /\ launched' = launched + 1
    /\ threads' = threads \cup {launched + 1}
    /\ pc' = [pc EXCEPT ![launched + 1] = "spin"]
    /\ mpc' = IF launched + 1 < NumThreads THEN "launch" ELSE "interval"
    /\ UNCHANGED <<names, fin, ival, page, total_pages, data, joined, pushed,
                   reads, workerVars, configVars, partVars, apiVars,
                   resumeVars>>

\* for i in self._intervals:
NextInterval ==
    /\ mpc = "interval"
    /\ IF ival < Len(intervals)
       THEN /\ ival' = ival + 1
            /\ mpc' = "firstRead"
       ELSE /\ mpc' = "setFin"
            /\ UNCHANGED ival
    /\ UNCHANGED <<names, fin, threads, pc, launched, page, total_pages, data,
                   joined, pushed, reads, workerVars, configVars, partVars,
                   apiVars, resumeVars>>

\* A search response: its items and its total_count.
Responses ==
    [items : SeqsUpTo(Logins, MaxPush - Len(pushed)), total_count : TotalCounts]

\* data = self._readAPI(url) for page 1 (a response the loop overwrites
\* before it is read); total_pages = 10000; page = 1
FirstRead ==
    /\ mpc = "firstRead"
    /\ data' = NoData
    /\ total_pages' = 10000
    /\ page' = 1
    /\ reads' = <<1>>
    /\ mpc' = "while"
    /\ UNCHANGED <<names, fin, threads, pc, launched, ival, joined, pushed,
                   workerVars, configVars, partVars, apiVars, resumeVars>>

\* The pager with `self._fin = True` inside the loop over the intervals.
WhileSettingFin ==
    /\ mpc = "while"
    /\ IF total_pages >= page
       THEN /\ mpc' = "read"
            /\ UNCHANGED <<page, total_pages, fin, reads>>
       ELSE /\ mpc' = "interval"
            /\ page' = 0
            /\ total_pages' = 0
            /\ reads' = <<>>
            /\ fin' = TRUE
    /\ UNCHANGED <<names, threads, pc, launched, ival,
                   data, joined, pushed, workerVars, configVars, partVars,
                   apiVars, resumeVars>>

\* while total_pages>=page:   (the locals end with the call)
While ==
    /\ mpc = "while"
    /\ IF total_pages >= page
       THEN /\ mpc' = "read"
            /\ UNCHANGED <<page, total_pages, reads>>
       ELSE /\ mpc' = "interval"
            /\ page' = 0
            /\ total_pages' = 0
            /\ reads' = <<>>
    /\ UNCHANGED <<names, fin, threads, pc, launched, ival,
                   data, joined, pushed, workerVars, configVars, partVars,
                   apiVars, resumeVars>>

\* data = self._readAPI(self._getURL(page, start_date, final_date))
Read ==
    /\ mpc = "read"
    /\ data' \in Responses
    /\ reads' = Append(reads, page)
    /\ mpc' = "put"
    /\ UNCHANGED <<names, fin, threads, pc, launched, ival, page, total_pages,
                   joined, pushed, workerVars, configVars, partVars, apiVars,
                   resumeVars>>

\* for u in data['items']: self._names.put(u["login"])
Put ==
    /\ mpc = "put"
    /\ data.items # <<>>
    /\ names' = Append(names, Head(data.items))
    /\ pushed' = Append(pushed, Head(data.items))
    /\ data' = [data EXCEPT !.items = Tail(@)]
    /\ UNCHANGED <<mpc, fin, threads, pc, launched, ival, page, total_pages,
                   joined, reads, workerVars, configVars, partVars, apiVars,
                   resumeVars>>

\* total_pages = int(total_count / 100) + 1; page += 1
Count ==
    /\ mpc = "put"
    /\ data.items = <<>>
    /\ total_pages' = TotalPages(data.total_count)
    /\ page' = page + 1
    /\ data' = NoData
    /\ mpc' = "while"
    /\ UNCHANGED <<names, fin, threads, pc, launched, ival, joined,
                   pushed, reads, workerVars, configVars, partVars, apiVars,
                   resumeVars>>

\* self._fin = True
SetFin ==
    /\ mpc = "setFin"
    /\ fin' = TRUE
    /\ mpc' = "join"
    /\ UNCHANGED <<names, threads, pc, launched, ival, page, total_pages, data,
                   joined, pushed, reads, workerVars, configVars, partVars,
                   apiVars, resumeVars>>

\* for t in self._threads: t.join()
Join(t) ==
    /\ mpc = "join"
    /\ t \in threads \ joined
    /\ pc[t] = "done"
    /\ joined' = joined \cup {t}
    /\ mpc' = IF joined' = threads THEN "done" ELSE "join"
    /\ UNCHANGED <<names, fin, threads, pc, launched, ival, page, total_pages,
                   data, pushed, reads, workerVars, configVars, partVars,
                   apiVars, resumeVars>>

Main ==
    \/ Start \/ Comprobation \/ LaunchThread \/ NextInterval \/ FirstRead
    \/ While \/ Read \/ Put \/ Count \/ SetFin \/ \E t \in Workers : Join(t)

Next == Main \/ \E w \in Workers : Worker(w)

Spec == Init /\ [][Next]_vars

\* Every thread that can take a step eventually takes one.
FairSpec ==
    /\ Spec
    /\ WF_vars(Main)
    /\ \A w \in Workers : WF_vars(Worker(w))

\* ------------------------------ calculateBestIntervals / _validInterval

\* A call _validInterval(start, finish) and where it stands.
Frame(start, finish) == [start |-> start, finish |-> finish, at |-> "probe"]

\* calculateBestIntervals without `self._intervals = []`.
CalculateBestIntervalsKeeping ==
    /\ ppc = "idle"
    /\ stack' = <<Frame(0, today)>>
    /\ probes' = <<>>
    /\ ppc' = "running"
    /\ UNCHANGED <<intervals, today, lastDay, crawlVarsButIntervals, apiVars,
                   resumeVars>>

\* comprobation = self._readAPI(self._getURL()); self._intervals = [];
\* self._validInterval(datetime.date(2008, 1, 1), datetime.datetime.now().date())
CalculateBestIntervals ==
    /\ ppc = "idle"
    /\ intervals' = <<>>
    /\ stack' = <<Frame(0, today)>>
    /\ probes' = <<>>
    /\ ppc' = "running"
    /\ UNCHANGED <<today, lastDay, names, myusers, dataUsers, excluded,
                   excludedLocations, fin, threads, lockGetUser,
                   lockReadAddUser, workerLocals, mainVars, fetched,
                   apiVars, resumeVars>>

Top == stack[Len(stack)]
Pop == SubSeq(stack, 1, Len(stack) - 1)

\* data = self._readAPI(...); if data["total_count"]>=1000: split and
\* call on the left half; else: append the interval and return
Probe ==
    /\ ppc = "running"
    /\ stack # <<>>
    /\ Top.at = "probe"
    /\ \E total_count \in Counts :
         /\ probes' = Append(probes, [start |-> Top.start, finish |-> Top.finish,
                                      total_count |-> total_count])
         /\ IF IsBig(total_count)
            THEN /\ UNCHANGED intervals
                 /\ IF Len(stack) < RecursionLimit
                    THEN /\ stack' = Append([stack EXCEPT ![Len(stack)].at = "left"],
                                            Frame(Top.start, Middle(Top.start, Top.finish)))
                         /\ UNCHANGED ppc
                    ELSE /\ stack' = <<>>
                         /\ ppc' = "RecursionError"
            ELSE /\ intervals' = Append(intervals,
                                        <<Strftime(Top.start), Strftime(Top.finish)>>)
                 /\ stack' = Pop
                 /\ UNCHANGED ppc
    /\ UNCHANGED <<today, lastDay, names, myusers, dataUsers, excluded,
                   excludedLocations, fin, threads, lockGetUser,
                   lockReadAddUser, workerLocals, mainVars, fetched,
                   apiVars, resumeVars>>

\* self._validInterval(start,middle) has returned:
\* self._validInterval(middle,finish)
CallRight ==
    /\ ppc = "running"
    /\ stack # <<>>
    /\ Top.at = "left"
    /\ stack' = Append([stack EXCEPT ![Len(stack)].at = "right"],
                       Frame(Middle(Top.start, Top.finish), Top.finish))
    /\ UNCHANGED <<ppc, today, lastDay, probes, intervals, names, myusers,
                   dataUsers, excluded, excludedLocations, fin, threads,
                   lockGetUser, lockReadAddUser, workerLocals, mainVars, fetched,
                   apiVars, resumeVars>>

\* self._validInterval(middle,finish) has returned: return
Return ==
    /\ ppc = "running"
    /\ stack # <<>>
    /\ Top.at = "right"
    /\ stack' = Pop
    /\ UNCHANGED <<ppc, today, lastDay, probes, intervals, names, myusers,
                   dataUsers, excluded, excludedLocations, fin, threads,
                   lockGetUser, lockReadAddUser, workerLocals, mainVars, fetched,
                   apiVars, resumeVars>>

\* self._lastDay = datetime.datetime.now().date().strftime("%Y-%m-%d")
SetLastDay ==
    /\ ppc = "running"
    /\ stack = <<>>
    /\ lastDay' = Strftime(today)
    /\ ppc' = "done"
    /\ UNCHANGED <<stack, today, probes, intervals, names, myusers,
                   dataUsers, excluded, excludedLocations, fin, threads,
                   lockGetUser, lockReadAddUser, workerLocals, mainVars, fetched,
                   apiVars, resumeVars>>

NextPartition ==
    CalculateBestIntervals \/ Probe \/ CallRight \/ Return \/ SetLastDay

SpecPartition == InitPartition /\ [][NextPartition]_vars

\* ------------------------------------------------------------- _readAPI

\* while code != 200: req = Request(url, headers=hdr); urlopen(req)
Request ==
    /\ rpc = "while"
    /\ code # 200
    /\ Len(requests) < MaxRequests
    /\ requests' = Append(requests, url)
    /\ response' \in ServerResponses
    /\ now' \in {t \in {now, now + 1} : t <= MaxTime}
    /\ rpc' = "urlopen"
    /\ UNCHANGED <<url, code, slept, crawlVars, partVars, resumeVars>>

\* response = urllib.request.urlopen(req); code = response.code
Opened ==
    /\ rpc = "urlopen"
    /\ response.kind = "response"
    /\ code' = response.code
    /\ rpc' = IF code' # 200 THEN "while" ELSE "loads"
    /\ UNCHANGED <<url, now, response, requests, slept, crawlVars, partVars,
                   resumeVars>>

\* time.sleep(secs): ValueError when secs is negative
SleepRaises(secs) == secs < 0

\* except URLError as e, e has getheader and the header is there:
\* reset = int(...); now_sec = ...; time.sleep(reset - now_sec); code = e.code
RateLimit ==
    /\ rpc = "urlopen"
    /\ response.kind = "ratelimit"
    /\ IF SleepRaises(response.reset - now)
       THEN /\ rpc' = "ValueError"
            /\ UNCHANGED <<code, now, slept>>
       ELSE /\ slept' = Append(slept, response.reset - now)
            /\ now' = now + (response.reset - now)
            /\ code' = response.code
            /\ rpc' = "while"
    /\ UNCHANGED <<url, response, requests, crawlVars, partVars, resumeVars>>

\* except URLError as e, e has getheader and the header is missing:
\* int(None) raises TypeError
NoResetHeader ==
    /\ rpc = "urlopen"
    /\ response.kind = "httperror"
    /\ rpc' = "TypeError"
    /\ UNCHANGED <<url, code, now, response, requests, slept, crawlVars,
                   partVars, resumeVars>>

\* What `code = e.code` does for a URLError that is no HTTPError: the
\* exception has no attribute code.
AfterURLError == "AttributeError"

\* except URLError as e, e has no getheader: code = e.code
NotHTTP ==
    /\ rpc = "urlopen"
    /\ response.kind = "urlerror"
    /\ rpc' = AfterURLError
    /\ UNCHANGED <<url, code, now, response, requests, slept, crawlVars,
                   partVars, resumeVars>>

\* data = json.loads(response.read().decode('utf-8')); return data
Loads ==
    /\ rpc = "loads"
    /\ rpc' = IF response.json THEN "return" ELSE "JSONDecodeError"
    /\ UNCHANGED <<url, code, now, response, requests, slept, crawlVars,
                   partVars, resumeVars>>

NextAPI == Request \/ Opened \/ RateLimit \/ NoResetHeader \/ NotHTTP \/ Loads

SpecAPI == InitAPI /\ [][NextAPI]_vars

\* ------------------------------- getConfig / __init__(config) / readConfig

\* self._locations after the constructor's else branch: the locations
\* argument, or else the city alone when there is one.
InitLocations(c, l) ==
    IF l # <<>> THEN l
    ELSE IF c # NoCity THEN <<c>>
    ELSE <<>>

\* The lists a loop over a set can build: one per iteration order.
Orders(S) ==
    {l \in [1..Cardinality(S) -> S] :
        \A i, j \in 1..Cardinality(S) : l[i] = l[j] => i = j}

\* The dictionaries getConfig can return for an object with all of its
\* attributes.
Configs(o) ==
    {[name |-> o.city, intervals |-> o.intervals, last_date |-> o.lastDay,
      excludedUsers |-> us, excludedLocations |-> ls,
      locations |-> o.locations] :
        us \in Orders(o.excluded), ls \in Orders(o.excludedLocations)}

\* The attributes getConfig reads.
ConfigAttrs ==
    {"city", "intervals", "lastDay", "excluded", "excludedLocations",
     "locations"}

\* The crawler whose configuration is saved.
Self ==
    [city |-> city, intervals |-> intervals, lastDay |-> lastDay,
     excluded |-> excluded, excludedLocations |-> excludedLocations,
     locations |-> locations]

\* A crawler constructed without config, with its partitions computed on
\* some day, about to save its configuration.
InitResume ==
    /\ names = <<>>
    /\ myusers = {}
    /\ dataUsers = <<>>
    /\ excluded \in SavedExcluded
    /\ excludedLocations \in SavedExcludedLocations
    /\ fin = FALSE
    /\ threads = {}
    /\ lockGetUser = NoThread
    /\ lockReadAddUser = NoThread
    /\ intervals \in IntervalChoices
    /\ pc = [w \in Workers |-> "idle"]
    /\ new_user = [w \in Workers |-> NoUser]
    /\ userLoc = [w \in Workers |-> NoLoc]
    /\ mpc = "start"
    /\ launched = 0
    /\ ival = 0
    /\ page = 0
    /\ total_pages = 0
    /\ data = NoData
    /\ joined = {}
    /\ reads = <<>>
    /\ pushed = <<>>
    /\ fetched = [u \in Logins |-> <<>>]
    /\ ppc = "idle"
    /\ stack = <<>>
    /\ today \in 0..MaxDay
    /\ lastDay = Strftime(today)
    /\ probes = <<>>
    /\ RestAPI
    /\ cpc = "getConfig"
    /\ city \in Cities
    /\ \E l \in LocationArgs : locations = InitLocations(city, l)
    /\ config = NoConfig
    /\ resumed = NoObject
    /\ attrs = {}
    /\ config2 = NoConfig

\* config = S.getConfig()
GetConfig ==
    /\ cpc = "getConfig"
    /\ config' \in Configs(Self)
    /\ cpc' = "readConfig"
    /\ UNCHANGED <<city, locations, resumed, attrs, config2,
                   crawlVars, partVars, apiVars>>

\* GitHubCity(id, secret, config=config): `if config:` holds, the
\* dictionary has keys; readConfig sets the four plain attributes
ReadConfig ==
    /\ cpc = "readConfig"
    /\ resumed' = [resumed EXCEPT !.city = config.name,
                                  !.intervals = config.intervals,
                                  !.lastDay = config.last_date,
                                  !.locations = config.locations]
    /\ attrs' = attrs \cup {"city", "intervals", "lastDay", "locations"}
    /\ cpc' = "excludedUsers"
    /\ UNCHANGED <<city, locations, config, config2,
                   crawlVars, partVars, apiVars>>

\* for e in config["excludedUsers"]: self._excluded.add(e)
\* (the first turn reads self._excluded: AttributeError without it)
ReadExcludedUsers ==
    /\ cpc = "excludedUsers"
    /\ IF config.excludedUsers = <<>>
       THEN /\ cpc' = "excludedLocations"
            /\ UNCHANGED resumed
       ELSE IF "excluded" \in attrs
       THEN /\ resumed' = [resumed EXCEPT !.excluded =
                  @ \cup {config.excludedUsers[i] :
                             i \in DOMAIN config.excludedUsers}]
            /\ cpc' = "excludedLocations"
       ELSE /\ cpc' = "raised"
            /\ UNCHANGED resumed
    /\ UNCHANGED <<city, locations, config, attrs, config2,
                   crawlVars, partVars, apiVars>>

\* for e in config["excludedLocations"]: self._excludedLocations.add(e)
ReadExcludedLocations ==
    /\ cpc = "excludedLocations"
    /\ IF config.excludedLocations = <<>>
       THEN /\ cpc' = "init"
            /\ UNCHANGED resumed
       ELSE IF "excludedLocations" \in attrs
       THEN /\ resumed' = [resumed EXCEPT !.excludedLocations =
                  @ \cup {config.excludedLocations[i] :
                             i \in DOMAIN config.excludedLocations}]
            /\ cpc' = "init"
       ELSE /\ cpc' = "raised"
            /\ UNCHANGED resumed
    /\ UNCHANGED <<city, locations, config, attrs, config2,
                   crawlVars, partVars, apiVars>>

\* the rest of __init__: the queue, the sets, the locks; none of them is
\* an attribute getConfig reads
Constructed ==
    /\ cpc = "init"
    /\ cpc' = "getConfig2"
    /\ UNCHANGED <<city, locations, config, resumed, attrs, config2,
                   crawlVars, partVars, apiVars>>

\* getConfig() of the new crawler: AttributeError on a missing attribute
GetConfigResumed ==
    /\ cpc = "getConfig2"
    /\ IF ConfigAttrs \subseteq attrs
       THEN /\ config2' \in Configs(resumed)
            /\ cpc' = "done"
       ELSE /\ cpc' = "raised"
            /\ UNCHANGED config2
    /\ UNCHANGED <<city, locations, config, resumed, attrs,
                   crawlVars, partVars, apiVars>>

NextResume ==
    \/ GetConfig
    \/ ReadConfig
    \/ ReadExcludedUsers
    \/ ReadExcludedLocations
    \/ Constructed
    \/ GetConfigResumed

SpecResume == InitResume /\ [][NextResume]_vars

\* ================================================================ claims

\* The elements of a sequence, and how often x is among them.
Range(seq) == {seq[i] : i \in DOMAIN seq}
Occurrences(x, seq) == Cardinality({i \in DOMAIN seq : seq[i] = x})

\* The login has a record in _dataUsers.
HasRecord(u) == \E i \in DOMAIN dataUsers : dataUsers[i].login = u

\* A worker is inside _addUser past the test, working on login u.
Processing(w, u) == pc[w] \in {"add", "getData", "append"} /\ new_user[w] = u

\* C1: whatever was pushed and however the workers interleave, _dataUsers
\* never holds two records for the same login.
C1_NoDuplicateRecords ==
    \A i, j \in DOMAIN dataUsers :
        i # j => dataUsers[i].login # dataUsers[j].login

\* C2: when getCityUsers has returned, the queue is empty and every login
\* that was pushed, is not excluded and was fetched with a location free of
\* excluded substrings has a record in _dataUsers.
C2_ReturnsComplete ==
    mpc = "done" =>
        /\ names = <<>>
        /\ \A u \in Range(pushed) \ excluded :
              /\ fetched[u] # <<>>
              /\ (\E i \in DOMAIN fetched[u] : ~AnyExcludedLocation(fetched[u][i]))
                     => HasRecord(u)

\* C3: under fair scheduling, with every fetch returning, getCityUsers
\* eventually returns.
C3_EventuallyReturns == <>(mpc = "done")

\* strptime: the day whose strftime is s.
Strptime(s) == CHOOSE n \in 0..MaxDay : Strftime(n) = s

\* Leaf i of _intervals, read as a range inclusive at both ends, holds day k.
Covers(i, k) == Strptime(intervals[i][1]) <= k /\ k <= Strptime(intervals[i][2])

\* C4: when calculateBestIntervals has finished on a domain whose probe
\* reported CAP or more, every day of the domain lies in exactly one leaf of
\* _intervals (inclusive ends): no gap, no overlap.
C4_LeavesPartitionDomain ==
    (ppc = "done" /\ probes[1].total_count >= CAP) =>
        \A k \in 0..today :
            Cardinality({i \in DOMAIN intervals : Covers(i, k)}) = 1

\* A call of _validInterval on a range of length 0 is about to probe.
DegenerateCall ==
    /\ ppc = "running"
    /\ stack # <<>>
    /\ Top.at = "probe"
    /\ Top.start = Top.finish

\* C5: a call of _validInterval on a degenerate range (start = finish)
\* makes one probe, appends the range as a leaf and returns, whatever count
\* the probe reports.
C5_DegenerateIsLeaf ==
    [][DegenerateCall =>
          /\ Len(probes') = Len(probes) + 1
          /\ intervals' = Append(intervals, <<Strftime(Top.start), Strftime(Top.finish)>>)
          /\ stack' = Pop
          /\ ppc' = "running"]_vars

\* C6: when the probe of the domain reports less than CAP,
\* calculateBestIntervals leaves exactly one leaf in _intervals, the domain
\* itself, after exactly one probe, of the domain; nothing of an earlier
\* computation is kept.
C6_SmallDomainOneLeaf ==
    (ppc \in {"running", "done"} /\ probes # <<>> /\ probes[1].total_count < CAP) =>
        /\ Len(probes) = 1
        /\ probes[1].start = 0 /\ probes[1].finish = today
        /\ Len(intervals) = 1
        /\ Strptime(intervals[1][1]) = 0
        /\ Strptime(intervals[1][2]) = today
        /\ stack = <<>>

\* C6's case: a crawler that held two intervals has recomputed them over a
\* domain of several days whose probe reported less than CAP.
C6_Witness ==
    /\ ppc = "done"
    /\ today >= 2
    /\ Len(probes) = 1
    /\ probes[1].total_count = CAP - 1
    /\ intervals = << <<"2008-01-01", Strftime(today)>> >>

\* C7: for an excluded login no detail fetch is ever started, the login is
\* never put in _myusers and never gets a record, however often it is pushed.
C7_ExcludedNeverProcessed ==
    \A u \in excluded :
        /\ fetched[u] = <<>>
        /\ u \notin myusers
        /\ ~HasRecord(u)
        /\ \A w \in Workers : ~Processing(w, u)

\* C7's case: an excluded login was pushed twice and both were taken off the
\* queue and dealt with.
C7_Witness ==
    \E u \in excluded :
        /\ Occurrences(u, pushed) >= 2
        /\ names = <<>>
        /\ \A w \in Workers : new_user[w] = NoUser

\* C8: no record of _dataUsers has a location containing an excluded
\* substring, and a login whose fetched location was discarded for that
\* stays in _myusers.
C8_NoExcludedLocation ==
    /\ \A i \in DOMAIN dataUsers :
          ~(\E s \in excludedLocations : Contains(s, dataUsers[i].location))
    /\ \A u \in Logins :
          (\E i \in DOMAIN fetched[u] :
               \E s \in excludedLocations : Contains(s, fetched[u][i]))
             => u \in myusers

\* C8's case: a login was fetched with a location that contains, without
\* being, an excluded substring, was discarded, and no worker holds it.
C8_Witness ==
    \E u \in Logins :
        /\ fetched[u] = << <<"x", "y">> >>
        /\ <<"y">> \in excludedLocations
        /\ \A w \in Workers : new_user[w] # u
        /\ ~HasRecord(u)
        /\ u \in myusers

Max(a, b) == IF a >= b THEN a ELSE b

\* C9: on a rate-limit response with reset r received at time now, _readAPI
\* sleeps max(0, r - now) seconds and goes on to retry the same URL; it does
\* not raise, also when r < now.
C9_RateLimitSleepsAndRetries ==
    [][(rpc = "urlopen" /\ response.kind = "ratelimit") =>
          /\ rpc' = "while"
          /\ slept' = Append(slept, Max(0, response.reset - now))
          /\ url' = url]_vars

\* C10: on a network error that is no HTTP response, _readAPI does not
\* fail: it goes on to retry the same URL at once, without sleeping.
C10_NetworkErrorRetries ==
    [][(rpc = "urlopen" /\ response.kind = "urlerror") =>
          /\ rpc' = "while"
          /\ url' = url
          /\ slept' = slept
          /\ now' = now]_vars

\* C12: a worker leaves _processUsers only when the queue is empty and _fin
\* is set; one that finds the queue empty while _fin is false keeps polling.
C12_ExitsOnlyWhenFinished ==
    [][\A w \in Workers :
          (pc[w] # "done" /\ pc'[w] = "done") => (names = <<>> /\ fin)]_vars

\* C13: the test against _myusers and _excluded and the insertion into
\* _myusers are one critical section: no two workers are past the test for
\* the same login, and at most one detail fetch is started per login.
C13_OneFetchPerLogin ==
    /\ \A u \in Logins : Len(fetched[u]) <= 1
    /\ \A w, v \in Workers :
          (w # v /\ new_user[w] # NoUser /\ Processing(w, new_user[w]))
             => ~Processing(v, new_user[w])

\* C14: a worker that is performing the detail fetch holds neither
\* _lockReadAddUser nor _lockGetUser.
C14_FetchHoldsNoLock ==
    \A w \in Workers :
        pc[w] = "getData" => (lockReadAddUser # w /\ lockGetUser # w)

\* C14's case: one worker is in the detail fetch while another holds the
\* seen-set lock, testing, and the dequeue lock is free.
C14_Witness ==
    \E w, v \in Workers :
        /\ pc[w] = "getData"
        /\ pc[v] = "test"
        /\ lockReadAddUser = v
        /\ lockGetUser = NoThread

\* C15: a worker appends to _dataUsers only while it holds a lock, so no two
\* workers are in the append step together.
C15_AppendUnderLock ==
    /\ \A w \in Workers :
          pc[w] = "append" => (lockReadAddUser = w \/ lockGetUser = w)
    /\ \A w, v \in Workers :
          (pc[w] = "append" /\ pc[v] = "append") => w = v

\* C19: the intervals are paged one after the other in the order of
\* _intervals, every worker is started before the first login is pushed,
\* _fin is set only after the pager of the last interval, and no login is
\* pushed while _fin is set.
C19_PushesBeforeFin ==
    [][/\ (pushed' # pushed) => (~fin /\ ~fin' /\ threads = Workers
                                  /\ \A w \in Workers : pc[w] # "idle")
       /\ (ival' # ival) => (ival' = ival + 1 /\ mpc = "interval")
       /\ (fin' /\ ~fin) => (mpc = "setFin" /\ ival = Len(intervals)
                              /\ data.items = <<>>)
       /\ (fin /\ mpc # "start") => fin']_vars

\* C19's case: both of two intervals were paged, each gave a login, and _fin
\* was set after that.
C19_Witness ==
    /\ Len(intervals) = 2
    /\ ival = 2
    /\ Len(pushed) = 2
    /\ fin
    /\ mpc = "done"

\* C20: every record of _dataUsers is of a login in _myusers, _myusers holds
\* no excluded login, neither ever loses an element, and so there are never
\* more records than seen logins.
C20_RecordsWithinSeen ==
    [][/\ \A i \in DOMAIN dataUsers : dataUsers[i].login \in myusers
       /\ myusers \cap excluded = {}
       /\ myusers \subseteq myusers'
       /\ Len(dataUsers) <= Len(dataUsers')
       /\ SubSeq(dataUsers', 1, Len(dataUsers)) = dataUsers
       /\ Len(dataUsers) <= Cardinality(myusers)
       /\ Len(dataUsers') <= Cardinality(myusers')]_vars

\* The length of the range of a call, in days.
RangeLength(frame) == frame.finish - frame.start

\* C16: every recursive call of _validInterval is on a range strictly
\* shorter than that of its caller, also for a range of one day, and so the
\* recursion never runs away, whatever the probes report.
C16_CallsShrink ==
    /\ \A i \in 2..Len(stack) : RangeLength(stack[i]) < RangeLength(stack[i - 1])
    /\ ppc # "RecursionError"

\* The probes that reported less than CAP, in the order they were made.
SmallProbe(p) == p.total_count < CAP
SmallProbes == SelectSeq(probes, SmallProbe)

\* C17: the leaves of _intervals are, in order, exactly the ranges whose
\* probe reported less than CAP (a range is never appended on a probe of CAP
\* or more); each leaf starts no earlier than the leaf before it ends; and
\* when calculateBestIntervals has finished the first leaf starts at the
\* start of the domain and the last ends at its end.
C17_LeavesOrderedAndSmall ==
    (ppc # "idle") =>
        /\ Len(intervals) = Len(SmallProbes)
        /\ \A i \in DOMAIN intervals :
              /\ Strptime(intervals[i][1]) = SmallProbes[i].start
              /\ Strptime(intervals[i][2]) = SmallProbes[i].finish
        /\ \A i \in 2..Len(intervals) :
              Strptime(intervals[i][1]) >= Strptime(intervals[i - 1][2])
        /\ (ppc = "done") =>
              /\ intervals # <<>>
              /\ Strptime(intervals[1][1]) = 0
              /\ Strptime(intervals[Len(intervals)][2]) = today

\* C17's case: a finished computation that split twice or more and got a
\* probe of exactly CAP on the way.
C17_Witness ==
    /\ ppc = "done"
    /\ Len(intervals) >= 3
    /\ \E i \in DOMAIN probes : probes[i].total_count = CAP

\* C18: for one interval _getPeriodUsers makes a single forward pass over
\* the pages: it requests page 1, then page 2, and so on, each page once,
\* and stops after the page count of the most recent response.
C18_OneFetchPerPage ==
    /\ \A i \in DOMAIN reads : reads[i] = i
    /\ (mpc = "while" /\ total_pages < page) => Len(reads) = page - 1

\* Two configuration dictionaries say the same: same name, locations,
\* intervals and last-run date, and the same excluded ids and locations.
SameConfig(c1, c2) ==
    /\ c1.name = c2.name
    /\ c1.locations = c2.locations
    /\ c1.intervals = c2.intervals
    /\ c1.last_date = c2.last_date
    /\ Range(c1.excludedUsers) = Range(c2.excludedUsers)
    /\ Range(c1.excludedLocations) = Range(c2.excludedLocations)

\* C11: constructing a crawler from S.getConfig() raises nothing, makes no
\* probe request, and the getConfig() of the new crawler returns without
\* raising a dictionary equal to S.getConfig().
C11_ResumeRoundTrip ==
    /\ cpc # "raised"
    /\ probes = <<>>
    /\ cpc = "done" => SameConfig(config2, config)

====
